---- MODULE Spec2Model ----
(***************************************************************************)
(* A model of the calculator: the token model (token.rs), the lexer        *)
(* (lexer.rs), the abstract syntax tree and its evaluator (ast.rs), the    *)
(* recursive-descent parser (parser.rs) and the read-eval loop (main.rs).  *)
(*                                                                         *)
(* f64 values are modelled by exact rationals together with NaN and the    *)
(* two infinities.  A value the exact arithmetic does not track (an        *)
(* irrational power, a magnitude beyond ValueCap) is the abstract value    *)
(* Unrep; rounding and the sign of zero are not modelled.                  *)
(***************************************************************************)
EXTENDS Integers, Sequences, FiniteSets, TLC

VARIABLES
  pc,        \* position of the run: which call comes next
  source,    \* Lexer.source, as a sequence of code points
  lexer,     \* Lexer fields initial, current_start, current_end, current
  lexed,     \* locals of Lexer::lex: tokens and messages; and its result
  tokens,    \* the token slice handed to Parser::parse
  parsed,    \* the result of Parser::parse
  memory,    \* main's HashMap<String, f64>
  value,     \* the result of AstNode::evaluate
  tree,      \* a tree built through AstNode::new (self)
  other,     \* a tree built through AstNode::new (the other operand)
  equal      \* the result of AstNode::ast_equality

vars == <<pc, source, lexer, lexed, tokens, parsed, memory, value, tree, other, equal>>

----------------------------------------------------------------------------
(* Bounds of the model *)

\* Magnitude up to which numerators and denominators are tracked exactly.
ValueCap == 1000

----------------------------------------------------------------------------
(* f64 *)

AbsInt(i) == IF i < 0 THEN -i ELSE i

RECURSIVE Gcd(_, _)
Gcd(a, b) == IF b = 0 THEN a ELSE Gcd(b, a % b)

NaN    == [k |-> "nan",   n |-> 0,  d |-> 1]
PosInf == [k |-> "inf",   n |-> 1,  d |-> 1]
NegInf == [k |-> "inf",   n |-> -1, d |-> 1]
Unrep  == [k |-> "unrep", n |-> 0,  d |-> 1]

\* The rational n/d (d # 0) in lowest terms with a positive denominator.
Rat(n, d) ==
  LET g  == Gcd(AbsInt(n), AbsInt(d))
      s  == IF d < 0 THEN -1 ELSE 1
      nn == (s * n) \div g
      dd == (s * d) \div g
  IN IF AbsInt(nn) > ValueCap \/ dd > ValueCap
       THEN Unrep
       ELSE [k |-> "rat", n |-> nn, d |-> dd]

Num(i) == Rat(i, 1)

IsRat(v)  == v.k = "rat"
IsInt(v)  == v.k = "rat" /\ v.d = 1
Sign(v)   == IF v.n > 0 THEN 1 ELSE IF v.n < 0 THEN -1 ELSE 0
InfOf(s)  == IF s < 0 THEN NegInf ELSE PosInf

\* f64 addition
FAdd(a, b) ==
  IF a.k = "nan" \/ b.k = "nan" THEN NaN
  ELSE IF a.k = "unrep" \/ b.k = "unrep" THEN Unrep
  ELSE IF a.k = "inf" /\ b.k = "inf" THEN (IF a.n = b.n THEN a ELSE NaN)
  ELSE IF a.k = "inf" THEN a
  ELSE IF b.k = "inf" THEN b
  ELSE Rat(a.n * b.d + b.n * a.d, a.d * b.d)

\* f64 multiplication
FMul(a, b) ==
  IF a.k = "nan" \/ b.k = "nan" THEN NaN
  ELSE IF a.k = "unrep" \/ b.k = "unrep" THEN Unrep
  ELSE IF a.k = "inf" \/ b.k = "inf"
    THEN (IF Sign(a) * Sign(b) = 0 THEN NaN ELSE InfOf(Sign(a) * Sign(b)))
  ELSE Rat(a.n * b.n, a.d * b.d)

\* x to a natural power e by repeated multiplication; Unrep once past ValueCap.
RECURSIVE PowAcc(_, _, _)
PowAcc(x, e, acc) ==
  IF e = 0 THEN acc
  ELSE IF acc.k = "unrep" THEN Unrep
  ELSE PowAcc(x, e - 1, FMul(acc, x))

PowNat(x, e) ==
  IF e = 0 THEN Num(1)
  ELSE IF x.k = "unrep" THEN Unrep
  ELSE IF x.n = 0 THEN Num(0)
  ELSE IF AbsInt(x.n) = 1 /\ x.d = 1
    THEN (IF x.n = 1 \/ e % 2 = 0 THEN Num(1) ELSE Num(-1))
  ELSE PowAcc(x, e, Num(1))

\* f64::powf (IEEE pow)
FPow(x, y) ==
  IF y.k = "rat" /\ y.n = 0 THEN Num(1)
  ELSE IF x.k = "rat" /\ x.n = 1 /\ x.d = 1 THEN Num(1)
  ELSE IF x.k = "nan" \/ y.k = "nan" THEN NaN
  ELSE IF x.k = "unrep" \/ y.k = "unrep" THEN Unrep
  ELSE IF y.k = "inf" THEN
    (IF x.k = "inf" THEN (IF y.n > 0 THEN PosInf ELSE Num(0))
     ELSE IF AbsInt(x.n) = x.d THEN Num(1)
     ELSE IF (AbsInt(x.n) > x.d) = (y.n > 0) THEN PosInf ELSE Num(0))
  ELSE IF x.k = "inf" THEN
    (IF y.n < 0 THEN Num(0)
     ELSE IF x.n < 0 /\ IsInt(y) /\ y.n % 2 = 1 THEN NegInf ELSE PosInf)
  ELSE IF ~IsInt(y) THEN (IF x.n < 0 THEN NaN ELSE IF x.n = 0
                            THEN (IF y.n > 0 THEN Num(0) ELSE PosInf) ELSE Unrep)
  ELSE IF y.n > 0 THEN PowNat(x, y.n)
  ELSE IF x.n = 0 THEN PosInf
  ELSE PowNat(Rat(x.d, x.n), -y.n)

\* f64::abs
FAbsF(x) == IF x.k = "inf" THEN PosInf
            ELSE IF x.k = "rat" THEN [x EXCEPT !.n = AbsInt(x.n)] ELSE x

\* the natural r with r * r = i, or -1
NatSqrt(i) == IF \E r \in 0..ValueCap : r * r = i
                THEN CHOOSE r \in 0..ValueCap : r * r = i ELSE -1

\* f64::sqrt
FSqrt(x) ==
  IF x.k = "nan" \/ x.k = "unrep" THEN x
  ELSE IF x.n < 0 THEN NaN
  ELSE IF x.k = "inf" THEN PosInf
  ELSE IF NatSqrt(x.n) >= 0 /\ NatSqrt(x.d) >= 0
    THEN Rat(NatSqrt(x.n), NatSqrt(x.d)) ELSE Unrep

----------------------------------------------------------------------------
(* ast.rs: AstHead and AstNode *)

\* AstHead: the variant and its payload (value for Number, name for the
\* string-carrying variants)
AstHead(kind, val, name) == [kind |-> kind, value |-> val, name |-> name]

HPlus          == AstHead("Plus", NaN, "")
HTimes         == AstHead("Times", NaN, "")
HPower         == AstHead("Power", NaN, "")
HAssign        == AstHead("Assign", NaN, "")
HNumber(v)     == AstHead("Number", v, "")
HConstant(s)   == AstHead("Constant", NaN, s)
HFunction(s)   == AstHead("Function", NaN, s)
HIdentifier(s) == AstHead("Identifier", NaN, s)

\* AstNode::new
New(head, tail) == [head |-> head, tail |-> tail]

\* AstNode::identifier
identifier(name) == New(HIdentifier(name), <<>>)

\* AstNode::number
number(v) == New(HNumber(v), <<>>)

\* AstNode::constant
constant(c) == New(HConstant(IF c = "π" THEN "pi" ELSE c), <<>>)

\* AstNode::function
function(name, argument) == New(HFunction(name), <<argument>>)

\* AstNode::assign
assign(name, expr) == New(HAssign, <<identifier(name), expr>>)

\* a variant of AstNode::plus: a single argument is wrapped too
plusWrapped(arguments) ==
  IF Len(arguments) = 0 THEN number(Num(0))
  ELSE New(HPlus, arguments)

\* AstNode::plus
plus(arguments) ==
  IF Len(arguments) = 0 THEN number(Num(0))
  ELSE IF Len(arguments) = 1 THEN arguments[1]
  ELSE New(HPlus, arguments)

\* AstNode::times
times(arguments) ==
  IF Len(arguments) = 0 THEN number(Num(1))
  ELSE IF Len(arguments) = 1 THEN arguments[1]
  ELSE New(HTimes, arguments)

\* rest.iter().rfold(last, |acc, x| Power[x, acc]) over rest[1..k]
RECURSIVE PowerFold(_, _, _)
PowerFold(rest, k, acc) ==
  IF k = 0 THEN acc
  ELSE PowerFold(rest, k - 1, New(HPower, <<rest[k], acc>>))

\* a variant of AstNode::power: the fold is seeded with the first argument
\* instead of the last
powerFromFirst(arguments) ==
  IF Len(arguments) = 0 THEN number(Num(1))
  ELSE IF Len(arguments) = 1 THEN arguments[1]
  ELSE PowerFold(SubSeq(arguments, 2, Len(arguments)),
                 Len(arguments) - 1, arguments[1])

\* AstNode::power
power(arguments) ==
  IF Len(arguments) = 0 THEN number(Num(1))
  ELSE IF Len(arguments) = 1 THEN arguments[1]
  ELSE PowerFold(SubSeq(arguments, 1, Len(arguments) - 1),
                 Len(arguments) - 1, arguments[Len(arguments)])

\* f64 == (NaN is not equal to itself)
FEq(a, b) == a.k # "nan" /\ b.k # "nan" /\ a = b

\* AstNode::ast_equality
RECURSIVE ast_equality(_, _)
ast_equality(self, that) ==
  LET h1 == self.head
      h2 == that.head
      tails == /\ Len(self.tail) = Len(that.tail)
               /\ \A j \in 1..Len(self.tail) : ast_equality(self.tail[j], that.tail[j])
  IN CASE h1.kind = "Plus" /\ h2.kind = "Plus" -> tails
       [] h1.kind = "Times" /\ h2.kind = "Times" -> tails
       [] h1.kind = "Power" /\ h2.kind = "Power" -> tails
       [] h1.kind = "Number" /\ h2.kind = "Number" -> FEq(h1.value, h2.value)
       [] h1.kind = "Identifier" /\ h2.kind = "Identifier" -> h1.name = h2.name
       [] h1.kind = "Function" /\ h2.kind = "Function" -> h1.name = h2.name /\ tails
       [] OTHER -> FALSE

----------------------------------------------------------------------------
(* ast.rs: AstNode::evaluate *)

\* a variant of HashMap::insert: the map is cleared before the insertion
InsertAlone(mem, name, v) == [n \in {name} |-> v]

\* a variant of HashMap::insert: entry(name).or_insert(v), which keeps an
\* existing binding
InsertIfAbsent(mem, name, v) ==
  [n \in DOMAIN mem \cup {name} |-> IF n \in DOMAIN mem THEN mem[n] ELSE v]

\* HashMap::insert
Insert(mem, name, v) ==
  [n \in DOMAIN mem \cup {name} |-> IF n = name THEN v ELSE mem[n]]

\* HashMap::get(..).unwrap_or(&NAN)
Lookup(mem, name) == IF name \in DOMAIN mem THEN mem[name] ELSE NaN

\* evaled_tail.iter().sum() / .product(), over vals[k..]
RECURSIVE SumFrom(_, _, _)
SumFrom(vals, k, acc) ==
  IF k > Len(vals) THEN acc ELSE SumFrom(vals, k + 1, FAdd(acc, vals[k]))

RECURSIVE ProductFrom(_, _, _)
ProductFrom(vals, k, acc) ==
  IF k > Len(vals) THEN acc ELSE ProductFrom(vals, k + 1, FMul(acc, vals[k]))

\* rest.iter().rfold(first, |acc, &x| acc.powf(x)): rest is visited from its
\* last element (index k) down to its first, acc being the base each time
RECURSIVE PowfRfold(_, _, _)
PowfRfold(rest, k, acc) ==
  IF k = 0 THEN acc ELSE PowfRfold(rest, k - 1, FPow(acc, rest[k]))

\* the Power arm of evaluate
EvalPower(evaled_tail) ==
  IF Len(evaled_tail) = 0 THEN Num(1)
  ELSE PowfRfold(Tail(evaled_tail), Len(evaled_tail) - 1, evaled_tail[1])

\* the Constant arm of evaluate (pi and e are irrational: an untracked value
\* each; they are told apart only by being defined, not by their value)
EvalConstant(name) ==
  IF name = "pi" \/ name = "e" THEN Unrep ELSE NaN

FunctionNames ==
  {"abs", "acos", "acosh", "asin", "asinh", "atan", "atanh", "cos", "cosh",
   "exp", "log", "sin", "sinh", "sqrt", "tan", "tanh"}

\* the Function arm of evaluate; abs and sqrt are exact, the transcendental
\* functions yield an untracked value (NaN for a NaN argument)
EvalFunction(name, first) ==
  IF name = "abs" THEN FAbsF(first)
  ELSE IF name = "sqrt" THEN FSqrt(first)
  ELSE IF name \in FunctionNames THEN (IF first.k = "nan" THEN NaN ELSE Unrep)
  ELSE NaN

\* The outcome of an evaluation: the value, the memory afterwards, and whether
\* the call panicked (expect / unreachable!).
EvalResult(v, mem, panic) == [val |-> v, mem |-> mem, panic |-> panic]

RECURSIVE evaluate(_, _)
RECURSIVE EvalTail(_, _, _, _)

\* one child evaluated (r), then the children after it
EvalTailPush(nodes, k, acc, r) ==
  IF r.panic THEN [vals |-> acc, mem |-> r.mem, panic |-> TRUE]
  ELSE EvalTail(nodes, k + 1, r.mem, Append(acc, r.val))

\* tail_iter.map(|arg| arg.evaluate(memory)).collect(), from child k on
EvalTail(nodes, k, mem, acc) ==
  IF k > Len(nodes) THEN [vals |-> acc, mem |-> mem, panic |-> FALSE]
  ELSE EvalTailPush(nodes, k, acc, evaluate(nodes[k], mem))

\* the match on head at the end of evaluate; t holds evaled_tail and the
\* memory after the children
EvalHead(self, t) ==
  LET head == self.head
      evaled_tail == t.vals
  IN IF t.panic THEN EvalResult(NaN, t.mem, TRUE)
     ELSE CASE head.kind = "Plus" -> EvalResult(SumFrom(evaled_tail, 1, Num(0)), t.mem, FALSE)
            [] head.kind = "Times" -> EvalResult(ProductFrom(evaled_tail, 1, Num(1)), t.mem, FALSE)
            [] head.kind = "Power" -> EvalResult(EvalPower(evaled_tail), t.mem, FALSE)
            [] head.kind = "Number" -> EvalResult(head.value, t.mem, FALSE)
            [] head.kind = "Constant" -> EvalResult(EvalConstant(head.name), t.mem, FALSE)
            [] head.kind = "Function" ->
                 IF Len(evaled_tail) = 0 THEN EvalResult(NaN, t.mem, TRUE)
                 ELSE EvalResult(EvalFunction(head.name, evaled_tail[1]), t.mem, FALSE)
            [] head.kind = "Identifier" -> EvalResult(Lookup(t.mem, head.name), t.mem, FALSE)
            [] head.kind = "Assign" ->
                 IF Len(evaled_tail) = 0 THEN EvalResult(NaN, t.mem, TRUE)
                 ELSE EvalResult(evaled_tail[1],
                                 Insert(t.mem, self.tail[1].head.name, evaled_tail[1]),
                                 FALSE)

\* the identifier child of an assignment is taken off the iterator first:
\* expect panics on no child, unreachable!() on a child that is no identifier
IdentPanic(self) ==
  /\ self.head.kind = "Assign"
  /\ (Len(self.tail) = 0 \/ self.tail[1].head.kind # "Identifier")

\* AstNode::evaluate
evaluate(self, mem) ==
  EvalHead(self,
    IF IdentPanic(self) THEN [vals |-> <<>>, mem |-> mem, panic |-> TRUE]
    ELSE EvalTail(self.tail, IF self.head.kind = "Assign" THEN 2 ELSE 1, mem, <<>>))

----------------------------------------------------------------------------
(* token.rs: Token *)

Token(kind, val, name) == [kind |-> kind, value |-> val, name |-> name]

LParen == Token("LParen", NaN, "")
RParen == Token("RParen", NaN, "")
Plus   == Token("Plus", NaN, "")
Minus  == Token("Minus", NaN, "")
Star   == Token("Star", NaN, "")
Slash  == Token("Slash", NaN, "")
Caret  == Token("Caret", NaN, "")
Equals == Token("Equals", NaN, "")
Eoi    == Token("Eoi", NaN, "")
Number(v)     == Token("Number", v, "")
Identifier(s) == Token("Identifier", NaN, s)
Constant(s)   == Token("Constant", NaN, s)
Function(s)   == Token("Function", NaN, s)

\* recognize_identifier: binary_search over the two sorted tables is
\* membership in them
ConstantNames == {"e", "pi", "π"}

recognize_identifier(id) ==
  IF id \in ConstantNames THEN Constant(id)
  ELSE IF id \in FunctionNames THEN Function(id)
  ELSE Identifier(id)

----------------------------------------------------------------------------
(* mod.rs: split_results and unlines *)

RECURSIVE SplitFrom(_, _, _, _)
SplitFrom(results, k, oks, errors) ==
  IF k > Len(results) THEN [oks |-> oks, errors |-> errors]
  ELSE IF results[k].kind = "Ok"
    THEN SplitFrom(results, k + 1, Append(oks, results[k].ast), errors)
    ELSE SplitFrom(results, k + 1, oks, Append(errors, results[k].msg))

\* split_results: the successes and the errors, each in order
split_results(results) == SplitFrom(results, 1, <<>>, <<>>)

\* unlines(lines).trim(): a message is the sequence of its lines; joining
\* messages with "\n" and trimming the leading "\n" concatenates their lines
RECURSIVE unlines(_)
unlines(lines) ==
  IF Len(lines) = 0 THEN <<>> ELSE lines[1] \o unlines(Tail(lines))

----------------------------------------------------------------------------
(* lexer.rs: Lexer.  The source is a sequence of code points; current_start *)
(* and current_end are byte offsets into its UTF-8 encoding.                *)

NUL == "NUL"   \* the code point '\0'

AsciiDigits == {"0", "1", "2", "3", "4", "5", "6", "7", "8", "9"}
Letters ==
  {"a", "b", "c", "d", "e", "f", "g", "h", "i", "j", "k", "l", "m", "n", "o",
   "p", "q", "r", "s", "t", "u", "v", "w", "x", "y", "z", "π"}
Whitespace == {" ", "\t"}

is_ascii_digit(c)  == c \in AsciiDigits
is_whitespace(c)   == c \in Whitespace
is_alphabetic(c)   == c \in Letters
is_alphanumeric(c) == c \in Letters \cup AsciiDigits

\* char::len_utf8
len_utf8(c) == IF c = "π" THEN 2 ELSE 1

\* String::len, in bytes
RECURSIVE ByteLen(_)
ByteLen(src) == IF Len(src) = 0 THEN 0 ELSE len_utf8(src[1]) + ByteLen(Tail(src))

\* source[offset..].chars().next().unwrap_or('\0')
RECURSIVE CharAt(_, _)
CharAt(src, offset) ==
  IF Len(src) = 0 THEN NUL
  ELSE IF offset = 0 THEN src[1]
  ELSE CharAt(Tail(src), offset - len_utf8(src[1]))

\* Lexer::new
LexerNew(src) ==
  [initial |-> 0,
   current_start |-> 0,
   current_end |-> IF Len(src) = 0 THEN 0 ELSE len_utf8(src[1]),
   current |-> IF Len(src) = 0 THEN NUL ELSE src[1]]

\* Lexer::advance
LexerAdvance(lx, src) ==
  IF lx.current_end < ByteLen(src)
    THEN [lx EXCEPT !.current_start = lx.current_end,
                    !.current = CharAt(src, lx.current_end),
                    !.current_end = lx.current_end + len_utf8(CharAt(src, lx.current_end))]
    ELSE [lx EXCEPT !.current_start = lx.current_end, !.current = NUL]

\* Lexer::hit_eoi
hit_eoi(lx) == lx.current_start >= lx.current_end

\* Lexer::skip_whitespace
RECURSIVE skip_whitespace(_, _)
skip_whitespace(lx, src) ==
  IF is_whitespace(lx.current) THEN skip_whitespace(LexerAdvance(lx, src), src) ELSE lx

\* the while loops of lex_number and lex_identifier: the lexer afterwards and
\* the code points pushed
RECURSIVE NumberRun(_, _, _)
NumberRun(lx, src, chars) ==
  IF (is_ascii_digit(lx.current) \/ lx.current = ".") /\ ~hit_eoi(lx)
    THEN NumberRun(LexerAdvance(lx, src), src, Append(chars, lx.current))
    ELSE [lexer |-> lx, chars |-> chars]

RECURSIVE IdentifierRun(_, _, _)
IdentifierRun(lx, src, chars) ==
  IF is_alphanumeric(lx.current) /\ ~hit_eoi(lx)
    THEN IdentifierRun(LexerAdvance(lx, src), src, Append(chars, lx.current))
    ELSE [lexer |-> lx, chars |-> chars]

\* chars.iter().collect::<String>()
RECURSIVE Collected(_)
Collected(chars) == IF Len(chars) = 0 THEN "" ELSE chars[1] \o Collected(Tail(chars))

DigitValue(c) == CHOOSE v \in 0..9 : <<"0", "1", "2", "3", "4", "5", "6", "7", "8", "9">>[v + 1] = c

\* the digits of chars[k..] read as a numerator over a power of ten; past
\* ValueCap the value is no longer tracked
RECURSIVE Decimal(_, _, _, _, _)
Decimal(chars, k, n, d, seenDot) ==
  IF k > Len(chars) THEN Rat(n, d)
  ELSE IF n > ValueCap \/ d > ValueCap THEN Unrep
  ELSE IF chars[k] = "." THEN Decimal(chars, k + 1, n, d, TRUE)
  ELSE Decimal(chars, k + 1, 10 * n + DigitValue(chars[k]),
               IF seenDot THEN 10 * d ELSE d, seenDot)

\* str::parse::<f64> of a run of digits and dots: it succeeds when the run
\* holds at most one dot and at least one digit
ParsesAsF64(chars) ==
  /\ Cardinality({k \in 1..Len(chars) : chars[k] = "."}) <= 1
  /\ \E k \in 1..Len(chars) : is_ascii_digit(chars[k])

NoMessage == [text |-> "", arg |-> ""]
LexOk(lx, tok)  == [lexer |-> lx, kind |-> "Ok", token |-> tok, message |-> NoMessage]
LexErr(lx, msg) == [lexer |-> lx, kind |-> "Err", token |-> Eoi, message |-> msg]

Unrecognized(c)  == [text |-> "Unrecognized character", arg |-> c]
FailedNumber(ns) == [text |-> "Failed to parse as a number.", arg |-> ns]
BadIdentifier    ==
  [text |-> "Identifiers must be alphanumeric and start with an alphabetic character.",
   arg |-> ""]

\* Lexer::lex_number
lex_number(lx, src) ==
  LET run == NumberRun(lx, src, <<>>)
  IN IF ParsesAsF64(run.chars)
       THEN LexOk(run.lexer, Number(Decimal(run.chars, 1, 0, 1, FALSE)))
       ELSE LexErr(run.lexer, FailedNumber(Collected(run.chars)))

\* Lexer::lex_identifier
lex_identifier(lx, src) ==
  LET first == IF is_alphabetic(lx.current)
                 THEN [lexer |-> LexerAdvance(lx, src), chars |-> <<lx.current>>]
                 ELSE [lexer |-> lx, chars |-> <<>>]
      run == IdentifierRun(first.lexer, src, first.chars)
  IN IF Len(run.chars) > 0
       THEN LexOk(run.lexer, recognize_identifier(Collected(run.chars)))
       ELSE LexErr(run.lexer, BadIdentifier)

SymbolTokens ==
  [c \in {"(", ")", "+", "-", "*", "/", "^", "="} |->
     CASE c = "(" -> LParen [] c = ")" -> RParen [] c = "+" -> Plus
       [] c = "-" -> Minus  [] c = "*" -> Star   [] c = "/" -> Slash
       [] c = "^" -> Caret  [] c = "=" -> Equals]

\* Lexer::next_token
next_token(lexer0, src) ==
  LET skipped == skip_whitespace(lexer0, src)
      lx == [skipped EXCEPT !.initial = skipped.current_start]
      c == lx.current
  IN IF c \in DOMAIN SymbolTokens THEN LexOk(LexerAdvance(lx, src), SymbolTokens[c])
     ELSE IF is_ascii_digit(c) \/ c = "." THEN lex_number(lx, src)
     ELSE IF is_alphabetic(c) THEN lex_identifier(lx, src)
     ELSE LexErr(LexerAdvance(lx, src), Unrecognized(c))

\* a variant of the end of Lexer::lex: no Token::Eoi is pushed
LexResultNoEoi(toks, messages) ==
  IF Len(messages) = 0
    THEN [kind |-> "Ok", tokens |-> toks, msg |-> <<>>]
    ELSE [kind |-> "Err", tokens |-> <<>>, msg |-> messages]

\* a variant of the end of Lexer::lex: only the first message is reported
LexResultFirstOnly(toks, messages) ==
  IF Len(messages) = 0
    THEN [kind |-> "Ok", tokens |-> Append(toks, Eoi), msg |-> <<>>]
    ELSE [kind |-> "Err", tokens |-> <<>>, msg |-> <<messages[1]>>]

\* the end of Lexer::lex: Ok(tokens + Eoi) or Err(all messages)
LexResult(toks, messages) ==
  IF Len(messages) = 0
    THEN [kind |-> "Ok", tokens |-> Append(toks, Eoi), msg |-> <<>>]
    ELSE [kind |-> "Err", tokens |-> <<>>, msg |-> messages]

\* tokens.push(token) or messages.push(message), then the loop again
RECURSIVE LexLoop(_, _, _, _)
LexPush(src, toks, messages, r) ==
  IF r.kind = "Ok"
    THEN LexLoop(r.lexer, src, Append(toks, r.token), messages)
    ELSE LexLoop(r.lexer, src, toks, Append(messages, r.message))

\* the while loop of Lexer::lex
LexLoop(lx, src, toks, messages) ==
  IF lx.current_start < lx.current_end
    THEN LexPush(src, toks, messages, next_token(lx, src))
    ELSE LexResult(toks, messages)

\* Lexer::lex
lex(input) == LexLoop(LexerNew(input), input, <<>>, <<>>)

----------------------------------------------------------------------------
(* parser.rs: Parser *)

\* Lines of the parser's error messages; format!("... {}", token) keeps the
\* token it names.
Unbalanced == [text |-> "Unbalanced parentheses.", token |-> Eoi]
ExpectedNumber(tok) == [text |-> "Expected to see a number here", token |-> tok]
ExpectedCaret(tok)  == [text |-> "Expected to see a '^' after base", token |-> tok]
ExpectedPlus(tok)   == [text |-> "Expected to see a '+' or '-' after term", token |-> tok]
ExpectedStar(tok)   == [text |-> "Expected to see a '*' or '/' after factor", token |-> tok]

NoAst == number(NaN)

\* Parser::advance
advance(toks, i) == IF i + 1 < Len(toks) THEN i + 1 ELSE i

\* What a grammar rule returns: Ok(ast), Err(msg), a panic (unreachable!) or
\* no return at all (Diverge), with current_index afterwards.  eoiInParen
\* records that atom took its Token::Eoi arm (end of input while a '(' awaits
\* its ')').
POk(ast, i, e)  == [kind |-> "Ok", ast |-> ast, msg |-> <<>>, i |-> i, eoiInParen |-> e]
PErr(msg, i, e) == [kind |-> "Err", ast |-> NoAst, msg |-> msg, i |-> i, eoiInParen |-> e]
PPanic(i, e)    == [kind |-> "Panic", ast |-> NoAst, msg |-> <<>>, i |-> i, eoiInParen |-> e]
PDiverge(i, e)  == [kind |-> "Diverge", ast |-> NoAst, msg |-> <<>>, i |-> i, eoiInParen |-> e]

\* the call did not return to its caller
Aborted(r) == r.kind \in {"Panic", "Diverge"}

\* advance on the last token of the slice leaves current_index where it is: a
\* rule that advances over a token and parses on then meets the same token
\* again, and recurses or loops without end
Stuck(toks, i) == advance(toks, i) = i

\* Parser::current_token
current_token(toks, i) == IF i < Len(toks) THEN toks[i + 1] ELSE Eoi

\* Parser::peek
peek(toks, i, step) == IF i + step < Len(toks) THEN toks[i + step + 1] ELSE Eoi

\* Result::map
MapOk(r, ast) == IF r.kind = "Ok" THEN [r EXCEPT !.ast = ast] ELSE r

\* the tail of each rule's loop: split_results, then Err of the joined
\* messages or Ok of the built node
Collect(results, built, i, e) ==
  IF Len(split_results(results).errors) > 0
    THEN PErr(unlines(split_results(results).errors), i, e)
    ELSE POk(built, i, e)

RECURSIVE atom(_, _)
RECURSIVE exponential(_, _)
RECURSIVE ExponentialLoop(_, _, _, _)
RECURSIVE factor(_, _)
RECURSIVE FactorLoop(_, _, _, _)
RECURSIVE expression(_, _)
RECURSIVE ExpressionLoop(_, _, _, _)

\* a variant of the closing match of atom's LParen arm: Token::Eoi gets the
\* generic message of an unexpected token
AtomCloseGeneric(toks, result) ==
  IF Aborted(result) THEN result
  ELSE IF current_token(toks, result.i).kind = "RParen"
    THEN [result EXCEPT !.i = advance(toks, result.i)]
  ELSE IF current_token(toks, result.i).kind = "Eoi"
    THEN PErr(<<ExpectedNumber(current_token(toks, result.i))>>, result.i, TRUE)
  ELSE PPanic(result.i, result.eoiInParen)

\* the match after the parenthesized expression in atom
AtomClose(toks, result) ==
  IF Aborted(result) THEN result
  ELSE IF current_token(toks, result.i).kind = "RParen"
    THEN [result EXCEPT !.i = advance(toks, result.i)]
  ELSE IF current_token(toks, result.i).kind = "Eoi"
    THEN PErr(<<Unbalanced>>, result.i, TRUE)
  ELSE PPanic(result.i, result.eoiInParen)

\* the match on the argument's result in atom's Token::Function arm
AtomFunction(name, result) == MapOk(result, function(name, result.ast))

\* Parser::atom
atom(toks, i) ==
  LET tok == current_token(toks, i)
  IN CASE tok.kind = "LParen" ->
            IF Stuck(toks, i) THEN PDiverge(i, FALSE)
            ELSE AtomClose(toks, expression(toks, advance(toks, i)))
       [] tok.kind = "Number" -> POk(number(tok.value), advance(toks, i), FALSE)
       [] tok.kind = "Constant" -> POk(constant(tok.name), advance(toks, i), FALSE)
       [] tok.kind = "Identifier" -> POk(identifier(tok.name), advance(toks, i), FALSE)
       [] tok.kind = "Function" ->
            IF Stuck(toks, i) THEN PDiverge(i, FALSE)
            ELSE AtomFunction(tok.name, atom(toks, advance(toks, i)))
       [] OTHER -> PErr(<<ExpectedNumber(tok)>>, i, FALSE)

\* results.push(r), then the loop again
ExponentialPush(toks, results, e, r) ==
  IF Aborted(r) THEN r
  ELSE ExponentialLoop(toks, r.i, Append(results, r), e \/ r.eoiInParen)

\* the loop of Parser::exponential
ExponentialLoop(toks, i, results, e) ==
  LET tok == current_token(toks, i)
  IN IF tok.kind \in {"Plus", "Minus", "Star", "Slash", "Eoi", "RParen"}
       THEN Collect(results, power(split_results(results).oks), i, e)
     ELSE IF tok.kind = "Caret"
       THEN (IF Stuck(toks, i) THEN PDiverge(i, e)
             ELSE ExponentialPush(toks, results, e, exponential(toks, advance(toks, i))))
     ELSE PErr(<<ExpectedCaret(tok)>>, i, e)

\* .map(|node| AstNode::times(vec![minus_1, node]))
Negated(r) == MapOk(r, times(<<number(Num(-1)), r.ast>>))

\* results = [first], then the loop
ExponentialFirst(toks, first) ==
  IF Aborted(first) THEN first
  ELSE ExponentialLoop(toks, first.i, <<first>>, first.eoiInParen)

\* Parser::exponential
exponential(toks, i) ==
  ExponentialFirst(toks,
    IF current_token(toks, i).kind = "Minus"
      THEN (IF Stuck(toks, i) THEN PDiverge(i, FALSE)
            ELSE Negated(exponential(toks, advance(toks, i))))
      ELSE atom(toks, i))

\* a variant of the Slash arm: base and exponent of the reciprocal swapped
ReciprocalSwapped(r) == MapOk(r, power(<<number(Num(-1)), r.ast>>))

\* Ok(denom) => Ok(AstNode::power(vec![denom, minus1]))
Reciprocal(r) == MapOk(r, power(<<r.ast, number(Num(-1))>>))

\* results.push(..) in the Star arm (r), or in the Slash arm (its reciprocal),
\* then the loop again
FactorPush(toks, results, e, slash, r) ==
  IF Aborted(r) THEN r
  ELSE FactorLoop(toks, r.i, Append(results, IF slash THEN Reciprocal(r) ELSE r),
                  e \/ r.eoiInParen)

\* the loop of Parser::factor
FactorLoop(toks, i, results, e) ==
  LET tok == current_token(toks, i)
  IN IF tok.kind \in {"Plus", "Minus", "Eoi", "RParen"}
       THEN Collect(results, times(split_results(results).oks), i, e)
     ELSE IF tok.kind \in {"Star", "Slash"}
       THEN (IF Stuck(toks, i) THEN PDiverge(i, e)
             ELSE FactorPush(toks, results, e, tok.kind = "Slash",
                             exponential(toks, advance(toks, i))))
     ELSE PErr(<<ExpectedStar(tok)>>, i, e)

\* results = [first], then the loop
FactorFirst(toks, first) ==
  IF Aborted(first) THEN first
  ELSE FactorLoop(toks, first.i, <<first>>, first.eoiInParen)

\* Parser::factor
factor(toks, i) == FactorFirst(toks, exponential(toks, i))

\* results.push(..) in the Plus arm (r), or in the Minus arm (its negation),
\* then the loop again
ExpressionPush(toks, results, e, minus, r) ==
  IF Aborted(r) THEN r
  ELSE ExpressionLoop(toks, r.i, Append(results, IF minus THEN Negated(r) ELSE r),
                      e \/ r.eoiInParen)

\* the loop of Parser::expression
ExpressionLoop(toks, i, results, e) ==
  LET tok == current_token(toks, i)
  IN IF tok.kind \in {"Plus", "Minus"}
       THEN (IF Stuck(toks, i) THEN PDiverge(i, e)
             ELSE ExpressionPush(toks, results, e, tok.kind = "Minus",
                                 factor(toks, advance(toks, i))))
     ELSE IF tok.kind \in {"Eoi", "RParen"}
       THEN Collect(results, plus(split_results(results).oks), i, e)
     ELSE PErr(<<ExpectedPlus(tok)>>, i, e)

\* results = [first], then the loop
ExpressionFirst(toks, first) ==
  IF Aborted(first) THEN first
  ELSE ExpressionLoop(toks, first.i, <<first>>, first.eoiInParen)

\* Parser::expression
expression(toks, i) == ExpressionFirst(toks, factor(toks, i))

\* result.map(|expr| AstNode::assign(&id, expr)) in the assignment arm
Assigned(isAssign, id, result) ==
  IF isAssign THEN MapOk(result, assign(id, result.ast)) ELSE result

\* whether assignment takes its Identifier '=' arm
IsAssignment(toks, i) ==
  current_token(toks, i).kind = "Identifier" /\ peek(toks, i, 1) = Equals

\* Parser::assignment
assignment(toks, i) ==
  Assigned(IsAssignment(toks, i), current_token(toks, i).name,
           expression(toks, IF IsAssignment(toks, i)
                              THEN advance(toks, advance(toks, i)) ELSE i))

\* Parser::parse (Parser::new sets current_index to 0)
parse(toks) == assignment(toks, 0)

----------------------------------------------------------------------------
(* Bounds of the runs *)

\* Longest arbitrary token slice handed to the parser, the closing Eoi not
\* counted.
MaxTokens == 4

\* Most operands of an operator chain handed to the parser.
MaxOperands == 3

\* Longest unterminated token slice (no closing Eoi) handed to the parser.
MaxSlice == 3

\* Longest source string handed to the lexer, in code points.
MaxSource == 4

\* Most children of a tree built through AstNode::new.
MaxArity == 3

\* Largest magnitude a variable holds in a session.
MaxSessionValue == 6

----------------------------------------------------------------------------
(* Inputs *)

SeqsUpTo(S, n) == UNION {[1..k -> S] : k \in 0..n}

\* The tokens arbitrary slices are drawn from: every symbol, two numbers, and
\* one name of each kind.
BodyTokens ==
  {LParen, RParen, Plus, Minus, Star, Slash, Caret, Equals,
   Number(Num(2)), Number(Num(3)), Identifier("x"), Constant("pi"), Function("sqrt")}

ChainAtoms == {Number(Num(2)), Number(Num(3)), Number(Num(6)), Identifier("x"), Constant("pi")}
ChainOps   == {Plus, Minus, Star, Slash, Caret}

\* atom (op atom)*
Interleave(atoms, ops) ==
  [k \in 1..(2 * Len(atoms) - 1) |->
     IF k % 2 = 1 THEN atoms[(k + 1) \div 2] ELSE ops[k \div 2]]

OperatorChains ==
  UNION {{Interleave(atoms, ops) : atoms \in [1..n -> ChainAtoms],
                                    ops \in [1..(n - 1) -> ChainOps]} : n \in 1..MaxOperands}

\* What a successful Lexer::lex hands over: tokens, then one Eoi.
TokenSlices ==
  {body \o <<Eoi>> : body \in SeqsUpTo(BodyTokens, MaxTokens) \cup OperatorChains}

\* Slices with no closing Eoi, as parser.rs's own tests pass them.
UnterminatedSlices ==
  SeqsUpTo({Plus, Star, Caret, LParen, RParen, Number(Num(1)), Number(Num(2)), Identifier("x")},
           MaxSlice) \ {<<>>}

\* The code points source strings are drawn from.
SourceAlphabet == {"(", "+", "1", ".", "e", "x", "p", " ", "&", "π"}

Sources == SeqsUpTo(SourceAlphabet, MaxSource)

\* The lines typed in a session.
SessionLines ==
  { <<"x", " ", "=", " ", "5">>,
    <<"x", " ", "+", " ", "1">>,
    <<"x", "=", "x", "+", "1">>,
    <<"x", "=", "2">>,
    <<"y", "=", "x">>,
    <<"y", "=", "y", "*", "x">>,
    <<"x", "=", "y", "-", "1">>,
    <<" ", "x", " ">>,
    <<"y">>,
    <<"2", "^", "3", "^", "2">>,
    <<"6", "/", "3", "/", "2">>,
    <<"(", "1", " ", "2", ")">>,
    <<"(", "1", "+", "2">>,
    <<"x", "&">>,
    <<" ">>,
    <<>> }

\* The trees built through AstNode::new: any head over up to MaxArity leaves.
AstLeaves == {number(Num(2)), number(Num(3)), identifier("x")}
AstHeads  == {HPlus, HTimes, HPower, HAssign, HNumber(Num(2)), HConstant("pi"),
              HFunction("sqrt"), HIdentifier("x")}
AstTrees  == {New(h, t) : h \in AstHeads, t \in SeqsUpTo(AstLeaves, MaxArity)}

----------------------------------------------------------------------------
(* The runs *)

NoMemory == [n \in {} |-> NaN]
NoParse  == PErr(<<>>, 0, FALSE)
NoLexer  == LexerNew(<<>>)
NoResult == [kind |-> "None", tokens |-> <<>>, msg |-> <<>>]
NoLexed  == [tokens |-> <<>>, messages |-> <<>>, result |-> NoResult]

\* Lexer::lex: one turn of its while loop
NextTokenStep ==
  /\ pc = "lex"
  /\ lexer.current_start < lexer.current_end
  /\ LET r == next_token(lexer, source)
     IN /\ lexer' = r.lexer
        /\ lexed' = IF r.kind = "Ok"
                      THEN [lexed EXCEPT !.tokens = Append(@, r.token)]
                      ELSE [lexed EXCEPT !.messages = Append(@, r.message)]
  /\ UNCHANGED <<pc, source, tokens, parsed, memory, value, tree, other, equal>>

\* Lexer::lex: the end of the loop and the result
LexReturn ==
  /\ pc = "lex"
  /\ ~(lexer.current_start < lexer.current_end)
  /\ lexed' = [lexed EXCEPT !.result = LexResult(lexed.tokens, lexed.messages)]
  /\ tokens' = lexed'.result.tokens
  /\ pc' = IF lexed'.result.kind = "Ok" THEN "lexed" ELSE "error"
  /\ UNCHANGED <<source, lexer, parsed, memory, value, tree, other, equal>>

\* main.rs read_line: Parser::parse(tokens.as_slice())
ParseStep ==
  /\ pc = "parse"
  /\ parsed' = parse(tokens)
  /\ pc' = IF parsed'.kind = "Ok" THEN "evaluate"
           ELSE IF parsed'.kind = "Err" THEN "error"
           ELSE IF parsed'.kind = "Panic" THEN "panic" ELSE "diverged"
  /\ UNCHANGED <<source, lexer, lexed, tokens, memory, value, tree, other, equal>>

\* main.rs read_line: ast.evaluate(memory)
EvaluateStep ==
  /\ pc = "evaluate"
  /\ LET r == evaluate(parsed.ast, memory)
     IN /\ value' = r.val
        /\ memory' = r.mem
        /\ pc' = IF r.panic THEN "panic" ELSE "done"
  /\ UNCHANGED <<source, lexer, lexed, tokens, parsed, tree, other, equal>>

\* str::trim
RECURSIVE TrimStart(_)
TrimStart(s) == IF Len(s) > 0 /\ is_whitespace(s[1]) THEN TrimStart(Tail(s)) ELSE s

RECURSIVE TrimEnd(_)
TrimEnd(s) ==
  IF Len(s) > 0 /\ is_whitespace(s[Len(s)]) THEN TrimEnd(SubSeq(s, 1, Len(s) - 1)) ELSE s

trim(s) == TrimEnd(TrimStart(s))

\* every value of the memory is an integer within the session's bound, or NaN
WithinSession(mem) ==
  \A n \in DOMAIN mem :
    mem[n].k = "nan" \/ (IsInt(mem[n]) /\ AbsInt(mem[n].n) <= MaxSessionValue)

\* what read_line computes from the trimmed line: the lexer's result, the
\* parser's and the evaluator's
Evaluated(lx, pr, mem) ==
  [lx |-> lx, pr |-> pr,
   ev |-> IF pr.kind = "Ok" THEN evaluate(pr.ast, mem) ELSE EvalResult(NaN, mem, FALSE)]

Parsed(lx, mem) ==
  Evaluated(lx, IF lx.kind = "Ok" THEN parse(lx.tokens) ELSE NoParse, mem)

Pipeline(input, mem) == Parsed(lex(input), mem)

ReadLineUpdate(input, out) ==
  /\ pc = "prompt"
  /\ source' = input
  /\ lexed' = [tokens |-> <<>>, messages |-> <<>>,
               result |-> IF Len(input) = 0 THEN NoResult ELSE out.lx]
  /\ tokens' = IF Len(input) = 0 THEN <<>> ELSE out.lx.tokens
  /\ parsed' = IF Len(input) = 0 THEN NoParse ELSE out.pr
  /\ value' = IF Len(input) = 0 THEN NaN ELSE out.ev.val
  /\ memory' = IF Len(input) = 0 THEN memory ELSE out.ev.mem
  /\ WithinSession(memory')
  /\ pc' = IF Len(input) = 0 THEN "exit"
           ELSE IF out.lx.kind = "Ok" /\ (Aborted(out.pr) \/ out.ev.panic) THEN "panic"
           ELSE "prompt"
  /\ UNCHANGED <<lexer, tree, other, equal>>

\* main.rs read_line, one whole call: read the line, trim it, lex, parse,
\* evaluate against main's memory
read_line(line) == ReadLineUpdate(trim(line), Pipeline(trim(line), memory))

ReadLineStep == \E line \in SessionLines : read_line(line)

\* a call of self.ast_equality(&other)
AstEqualityStep ==
  /\ pc = "built"
  /\ equal' = ast_equality(tree, other)
  /\ pc' = "compared"
  /\ UNCHANGED <<source, lexer, lexed, tokens, parsed, memory, value, tree, other>>

\* a call of self.evaluate(memory)
AstEvaluateStep ==
  /\ pc = "compared"
  /\ LET r == evaluate(tree, memory)
     IN /\ value' = r.val
        /\ memory' = r.mem
        /\ pc' = IF r.panic THEN "panic" ELSE "evaluated"
  /\ UNCHANGED <<source, lexer, lexed, tokens, parsed, tree, other, equal>>

Idle(at) ==
  /\ pc = at
  /\ source = <<>>
  /\ lexer = NoLexer
  /\ lexed = NoLexed
  /\ tokens = <<>>
  /\ parsed = NoParse
  /\ memory = NoMemory
  /\ value = NaN
  /\ tree = NoAst
  /\ other = NoAst
  /\ equal = FALSE

\* The parser and the evaluator on what a successful lex hands over.
Init ==
  /\ pc = "parse"
  /\ source = <<>>
  /\ lexer = NoLexer
  /\ lexed = NoLexed
  /\ tokens \in TokenSlices
  /\ parsed = NoParse
  /\ memory = NoMemory
  /\ value = NaN
  /\ tree = NoAst
  /\ other = NoAst
  /\ equal = FALSE

Next == ParseStep \/ EvaluateStep

Spec == Init /\ [][Next]_vars

\* The parser on slices with no closing Eoi.
SliceInit ==
  /\ pc = "parse"
  /\ source = <<>>
  /\ lexer = NoLexer
  /\ lexed = NoLexed
  /\ tokens \in UnterminatedSlices
  /\ parsed = NoParse
  /\ memory = NoMemory
  /\ value = NaN
  /\ tree = NoAst
  /\ other = NoAst
  /\ equal = FALSE

SliceSpec == SliceInit /\ [][Next]_vars

\* The lexer, one loop turn at a time.
LexInit ==
  /\ pc = "lex"
  /\ source \in Sources
  /\ lexer = LexerNew(source)
  /\ lexed = NoLexed
  /\ tokens = <<>>
  /\ parsed = NoParse
  /\ memory = NoMemory
  /\ value = NaN
  /\ tree = NoAst
  /\ other = NoAst
  /\ equal = FALSE

LexNext == NextTokenStep \/ LexReturn

LexSpec == LexInit /\ [][LexNext]_vars

\* main's loop over read_line.
SessionInit == Idle("prompt")

SessionNext == ReadLineStep

SessionSpec == SessionInit /\ [][SessionNext]_vars

\* ast_equality and evaluate on trees built through AstNode::new.
AstInit ==
  /\ pc = "built"
  /\ source = <<>>
  /\ lexer = NoLexer
  /\ lexed = NoLexed
  /\ tokens = <<>>
  /\ parsed = NoParse
  /\ memory \in {NoMemory, Insert(NoMemory, "x", Num(2))}
  /\ value = NaN
  /\ tree \in AstTrees
  /\ other \in AstTrees
  /\ equal = FALSE

AstNext == AstEqualityStep \/ AstEvaluateStep

AstSpec == AstInit /\ [][AstNext]_vars

----------------------------------------------------------------------------
(* Properties *)

IsAtomToken(tok) == tok.kind \in {"Number", "Identifier", "Constant"}

\* the leaf an atom token stands for, and its value in a memory
AtomNode(tok) ==
  IF tok.kind = "Number" THEN New(HNumber(tok.value), <<>>)
  ELSE IF tok.kind = "Identifier" THEN New(HIdentifier(tok.name), <<>>)
  ELSE New(HConstant(IF tok.name = "π" THEN "pi" ELSE tok.name), <<>>)

AtomValue(tok, mem) ==
  IF tok.kind = "Number" THEN tok.value
  ELSE IF tok.kind = "Identifier" THEN (IF tok.name \in DOMAIN mem THEN mem[tok.name] ELSE NaN)
  ELSE Unrep

Node2(h, a, b)    == [head |-> h, tail |-> <<a, b>>]
Node3(h, a, b, c) == [head |-> h, tail |-> <<a, b, c>>]
MinusOne == New(HNumber(Num(-1)), <<>>)

\* x / y and x - y on f64, stated apart from the evaluator's arithmetic
Quotient(x, y) ==
  IF x.k = "nan" \/ y.k = "nan" THEN NaN
  ELSE IF x.k = "unrep" \/ y.k = "unrep" THEN Unrep
  ELSE IF x.k = "rat" /\ y.k = "rat" /\ y.n # 0 THEN Rat(x.n * y.d, x.d * y.n)
  ELSE Unrep

Difference(x, y) ==
  IF x.k = "nan" \/ y.k = "nan" THEN NaN
  ELSE IF x.k = "unrep" \/ y.k = "unrep" THEN Unrep
  ELSE IF x.k = "rat" /\ y.k = "rat" THEN Rat(x.n * y.d - y.n * x.d, x.d * y.d)
  ELSE Unrep

\* the slice a op b Eoi, and a op b op c Eoi, over atoms
IsBinary(toks, op) ==
  /\ Len(toks) = 4
  /\ IsAtomToken(toks[1]) /\ toks[2] = op /\ IsAtomToken(toks[3]) /\ toks[4] = Eoi

IsChain(toks, op) ==
  /\ Len(toks) = 6
  /\ IsAtomToken(toks[1]) /\ toks[2] = op /\ IsAtomToken(toks[3])
  /\ toks[4] = op /\ IsAtomToken(toks[5]) /\ toks[6] = Eoi

\* C1: handed a slice with no closing Eoi, parse takes the end of the slice
\* for the end of the input: [Number(v)] parses to a tree ast_equal to
\* number(v), and [Number(a), Plus, Number(b)] to one ast_equal to
\* plus([number(a), number(b)]).
C1_SliceEndIsEndOfInput ==
  pc # "parse" =>
    /\ (Len(tokens) = 1 /\ tokens[1].kind = "Number") =>
         /\ parsed.kind = "Ok"
         /\ ast_equality(parsed.ast, number(tokens[1].value))
    /\ (Len(tokens) = 3 /\ tokens[1].kind = "Number" /\ tokens[2] = Plus
          /\ tokens[3].kind = "Number") =>
         /\ parsed.kind = "Ok"
         /\ ast_equality(parsed.ast,
                         plus(<<number(tokens[1].value), number(tokens[3].value)>>))

\* C2: on every token sequence a successful lex hands over, parse returns
\* Ok(tree) or Err(message); the unreachable!() of atom is never reached.
C2_ParseAlwaysReturns ==
  pc # "parse" => parsed.kind \in {"Ok", "Err"}

\* C3: '^' is right-associative: a ^ b ^ c parses to Power[a, Power[b, c]],
\* whose value is a ^ (b ^ c); 2^3^2 evaluates to 512.
C3_CaretRightAssociative ==
  (pc # "parse" /\ IsChain(tokens, Caret)) =>
    /\ parsed.kind = "Ok"
    /\ parsed.ast = Node2(HPower, AtomNode(tokens[1]),
                          Node2(HPower, AtomNode(tokens[3]), AtomNode(tokens[5])))
    /\ pc \in {"evaluate", "done"}
    /\ pc = "done" =>
         /\ value = FPow(AtomValue(tokens[1], NoMemory),
                         FPow(AtomValue(tokens[3], NoMemory), AtomValue(tokens[5], NoMemory)))
         /\ (tokens = <<Number(Num(2)), Caret, Number(Num(3)), Caret, Number(Num(2)), Eoi>>
               => value = Num(512))

C3_Witness ==
  /\ pc = "done"
  /\ tokens = <<Number(Num(2)), Caret, Number(Num(3)), Caret, Number(Num(2)), Eoi>>
  /\ value = Num(512)

\* C4: subtraction and division have no heads of their own and associate to
\* the left: a - b is Sum[a, Product[-1, b]], a / b is Product[a, Power[b, -1]],
\* a / b / c is one Product[a, Power[b, -1], Power[c, -1]] of value (a / b) / c,
\* a - b - c is one Sum[a, Product[-1, b], Product[-1, c]] of value (a - b) - c.
C4_MinusAndSlashRewritten ==
  LET A(k) == AtomNode(tokens[k])
      V(k) == AtomValue(tokens[k], NoMemory)
  IN pc # "parse" =>
       /\ IsBinary(tokens, Minus) =>
            /\ parsed.kind = "Ok"
            /\ parsed.ast = Node2(HPlus, A(1), Node2(HTimes, MinusOne, A(3)))
            /\ pc = "done" => value = Difference(V(1), V(3))
       /\ IsBinary(tokens, Slash) =>
            /\ parsed.kind = "Ok"
            /\ parsed.ast = Node2(HTimes, A(1), Node2(HPower, A(3), MinusOne))
            /\ pc = "done" => value = Quotient(V(1), V(3))
       /\ IsChain(tokens, Slash) =>
            /\ parsed.kind = "Ok"
            /\ parsed.ast = Node3(HTimes, A(1), Node2(HPower, A(3), MinusOne),
                                  Node2(HPower, A(5), MinusOne))
            /\ pc = "done" => value = Quotient(Quotient(V(1), V(3)), V(5))
       /\ IsChain(tokens, Minus) =>
            /\ parsed.kind = "Ok"
            /\ parsed.ast = Node3(HPlus, A(1), Node2(HTimes, MinusOne, A(3)),
                                  Node2(HTimes, MinusOne, A(5)))
            /\ pc = "done" => value = Difference(Difference(V(1), V(3)), V(5))

C4_Witness ==
  /\ pc = "done"
  /\ tokens = <<Number(Num(6)), Slash, Number(Num(3)), Slash, Number(Num(2)), Eoi>>
  /\ value = Num(1)

\* C5: evaluating Assign[x, rhs] evaluates rhs in the memory as it was before
\* the assignment (x = x + 1 reads the old x, NaN when x is unbound), binds x
\* to that value and returns it; until the next assignment to x, an evaluation
\* of x in the same memory returns that value (x = 5, then x + 1, yields 6).
C5_Step ==
  (pc' = "prompt" /\ lexed'.result.kind = "Ok" /\ parsed'.kind = "Ok") =>
    LET ast == parsed'.ast
        xPlus1 == Node2(HPlus, New(HIdentifier("x"), <<>>), New(HNumber(Num(1)), <<>>))
    IN /\ ast.head.kind = "Assign" =>
            /\ Len(ast.tail) = 2
            /\ value' = evaluate(ast.tail[2], memory).val
            /\ DOMAIN memory' = DOMAIN memory \cup {ast.tail[1].head.name}
            /\ \A n \in DOMAIN memory' :
                 memory'[n] = IF n = ast.tail[1].head.name THEN value' ELSE memory[n]
       /\ ast.head.kind # "Assign" => memory' = memory
       /\ ast.head.kind = "Identifier" =>
            value' = IF ast.head.name \in DOMAIN memory THEN memory[ast.head.name] ELSE NaN
       /\ ast = xPlus1 =>
            value' = IF "x" \in DOMAIN memory /\ memory["x"].k = "rat"
                       THEN Num(memory["x"].n + 1) ELSE NaN
       /\ (ast.head.kind = "Assign" /\ ast.tail[1].head.name = "x" /\ ast.tail[2] = xPlus1) =>
            value' = IF "x" \in DOMAIN memory /\ memory["x"].k = "rat"
                       THEN Num(memory["x"].n + 1) ELSE NaN

C5_AssignBindsThenReads == [][C5_Step]_vars

C5_Witness ==
  /\ pc = "prompt"
  /\ source = <<"x", "=", "x", "+", "1">>
  /\ "x" \in DOMAIN memory
  /\ memory["x"] = Num(6)
  /\ value = Num(6)

\* C6 as stated: when the parser reaches the end of the input while a '(' still
\* awaits its ')', parse fails with the message "Unbalanced parentheses." and
\* nothing else.
C6_OnlyUnbalancedMessage ==
  (pc # "parse" /\ parsed.eoiInParen) =>
    (parsed.kind = "Err" /\ parsed.msg = <<Unbalanced>>)

\* C6 as amended: when the parser reaches the end of the input while a '(' still
\* awaits its ')', parse fails and the last line of its message is "Unbalanced
\* parentheses."; the lines before it, if any, are the messages of operands that
\* failed before the open group.  For '(' a '+' b and '(' '(' a ')' the message
\* is that one line.
C6_UnbalancedIsLastLine ==
  pc # "parse" =>
    /\ parsed.eoiInParen =>
         /\ parsed.kind = "Err"
         /\ Len(parsed.msg) >= 1
         /\ parsed.msg[Len(parsed.msg)] = Unbalanced
         /\ \A k \in 1..(Len(parsed.msg) - 1) : parsed.msg[k] # Unbalanced
    /\ (\/ (/\ Len(tokens) = 5 /\ tokens[1] = LParen /\ IsAtomToken(tokens[2])
            /\ tokens[3] = Plus /\ IsAtomToken(tokens[4]))
        \/ (/\ Len(tokens) = 5 /\ tokens[1] = LParen /\ tokens[2] = LParen
            /\ IsAtomToken(tokens[3]) /\ tokens[4] = RParen)) =>
         /\ parsed.eoiInParen
         /\ parsed.msg = <<Unbalanced>>

C6_Witness ==
  /\ pc = "error"
  /\ parsed.eoiInParen
  /\ Len(parsed.msg) = 2
  /\ tokens[1] = Plus

\* the characters next_token has no arm for
IsUnrecognized(c) ==
  /\ c \notin DOMAIN SymbolTokens
  /\ ~is_ascii_digit(c) /\ c # "."
  /\ ~is_alphabetic(c)
  /\ ~is_whitespace(c)

\* the unrecognized characters of a source, in order
BadCharsOf(src) == SelectSeq(src, IsUnrecognized)

IsUnrecognizedMessage(m) == m.text = "Unrecognized character" /\ m.arg # NUL
IsFailedNumberMessage(m) == m.text = "Failed to parse as a number."

\* the characters the Unrecognized messages of a list report, in order
ReportedChars(messages) ==
  LET sel == SelectSeq(messages, IsUnrecognizedMessage)
  IN [k \in 1..Len(sel) |-> sel[k].arg]

\* the number of malformed numeric runs of src[k..]: a numeric run is a maximal
\* run of digits and dots that starts outside an identifier; it is malformed
\* with two dots or more, or with no digit.  at is "out", "ident" or "run".
RECURSIVE MalformedRuns(_, _, _, _, _)
MalformedRuns(src, k, at, dots, digits) ==
  LET closed == IF at = "run" /\ (dots > 1 \/ digits = 0) THEN 1 ELSE 0
  IN IF k > Len(src) THEN closed
     ELSE IF src[k] = "." THEN
            IF at = "run" THEN MalformedRuns(src, k + 1, "run", dots + 1, digits)
            ELSE MalformedRuns(src, k + 1, "run", 1, 0)
     ELSE IF is_ascii_digit(src[k]) THEN
            IF at = "run" THEN MalformedRuns(src, k + 1, "run", dots, digits + 1)
            ELSE IF at = "ident" THEN MalformedRuns(src, k + 1, "ident", 0, 0)
            ELSE MalformedRuns(src, k + 1, "run", 0, 1)
     ELSE IF is_alphabetic(src[k]) THEN closed + MalformedRuns(src, k + 1, "ident", 0, 0)
     ELSE closed + MalformedRuns(src, k + 1, "out", 0, 0)

C8_AllOrNothing ==
  pc # "lex" =>
    /\ lexed.messages # <<>> =>
         /\ lexed.result.kind = "Err"
         /\ lexed.result.tokens = <<>>
         /\ tokens = <<>>
         /\ lexed.result.msg = lexed.messages
    /\ lexed.messages = <<>> => lexed.result.kind = "Ok"
    /\ ReportedChars(lexed.result.msg) = BadCharsOf(source)
    /\ Len(SelectSeq(lexed.result.msg, IsFailedNumberMessage))
         = MalformedRuns(source, 1, "out", 0, 0)

C8_Witness ==
  /\ pc = "error"
  /\ Len(BadCharsOf(source)) = 2
  /\ MalformedRuns(source, 1, "out", 0, 0) = 1
  /\ Len(lexed.result.msg) = 3
  /\ Len(lexed.tokens) = 1

\* structural equality of two trees: equal heads (kind and payload), as many
\* children, and pairwise structurally equal children
RECURSIVE StructurallyEqual(_, _)
StructurallyEqual(t, u) ==
  /\ t.head = u.head
  /\ Len(t.tail) = Len(u.tail)
  /\ \A j \in 1..Len(t.tail) : StructurallyEqual(t.tail[j], u.tail[j])

\* a Literal, NamedConstant or VariableRef node carries no children
IsLeafless(t) == t.head.kind \in {"Number", "Constant", "Identifier"} => t.tail = <<>>

\* C9: ast_equality(t, u) is true exactly when t and u are structurally equal,
\* for all eight heads (Sum, Product, Power, Assign, Literal, NamedConstant,
\* Call, VariableRef); stated over trees whose leaves carry no children.
C9_AstEqualityIsStructural ==
  (pc # "built" /\ IsLeafless(tree) /\ IsLeafless(other)) =>
    (equal <=> StructurallyEqual(tree, other))

\* v[k] ^ (v[k+1] ^ (... ^ v[n])), 1 for no operand
RECURSIVE RightFoldPow(_, _)
RightFoldPow(v, k) ==
  IF k > Len(v) THEN Num(1)
  ELSE IF k = Len(v) THEN v[k]
  ELSE FPow(v[k], RightFoldPow(v, k + 1))

\* C10: a Power node with children of values v0..vn evaluates to the right
\* fold v0 ^ (v1 ^ (... ^ vn)), also for more than two children.
C10_PowerIsRightFold ==
  (pc = "evaluated" /\ tree.head.kind = "Power") =>
    value = RightFoldPow([k \in 1..Len(tree.tail) |->
                            evaluate(tree.tail[k], memory).val], 1)

\* an Assign node occurs in the tree
RECURSIVE ContainsAssign(_)
ContainsAssign(t) ==
  \/ t.head.kind = "Assign"
  \/ \E j \in 1..Len(t.tail) : ContainsAssign(t.tail[j])

\* C11: over the evaluations of one session the memory changes only by
\* evaluating an Assign node: a line that fails, and a tree without Assign,
\* leave every binding as it was; Assign on x changes at most the binding of x;
\* no name is ever removed; and the tree is after evaluate what parse built.
C11_Step ==
  LET evaluated == pc' = "prompt" /\ lexed'.result.kind = "Ok" /\ parsed'.kind = "Ok"
      ast == parsed'.ast
  IN /\ DOMAIN memory \subseteq DOMAIN memory'
     /\ ~evaluated => memory' = memory
     /\ (evaluated /\ ~ContainsAssign(ast)) => memory' = memory
     /\ (evaluated /\ ast.head.kind = "Assign") =>
          /\ DOMAIN memory' = DOMAIN memory \cup {ast.tail[1].head.name}
          /\ \A n \in DOMAIN memory \ {ast.tail[1].head.name} : memory'[n] = memory[n]
     /\ evaluated => ast = parse(tokens').ast

C11_MemoryFrame == [][C11_Step]_vars

C11_Witness ==
  /\ pc = "prompt"
  /\ source = <<"y", "=", "y", "*", "x">>
  /\ DOMAIN memory = {"x", "y"}
  /\ memory["x"] = Num(2)
  /\ memory["y"] = Num(4)

\* the arity invariants at every node of t; root tells whether t is the whole
\* tree
RECURSIVE HasArities(_, _)
HasArities(t, root) ==
  /\ CASE t.head.kind \in {"Plus", "Times"} -> Len(t.tail) >= 2
       [] t.head.kind = "Power" -> Len(t.tail) = 2
       [] t.head.kind = "Function" -> Len(t.tail) = 1
       [] t.head.kind \in {"Number", "Constant", "Identifier"} -> Len(t.tail) = 0
       [] t.head.kind = "Assign" ->
            /\ root
            /\ Len(t.tail) = 2
            /\ t.tail[1].head.kind = "Identifier"
       [] OTHER -> FALSE
  /\ \A j \in 1..Len(t.tail) : HasArities(t.tail[j], FALSE)

\* C12: every tree a successful parse returns keeps the arity invariants at
\* every node: Sum and Product have two children or more, Power exactly two,
\* a function call exactly one, a number, a constant and a variable none, and
\* Assign exactly two, the first a variable, and only at the root.
C12_ParsedTreeArities ==
  (pc # "parse" /\ parsed.kind = "Ok") => HasArities(parsed.ast, TRUE)

C12_Witness ==
  /\ pc = "done"
  /\ parsed.ast.head.kind = "Assign"
  /\ parsed.ast.tail[2].head.kind = "Times"
  /\ Len(parsed.ast.tail[2].tail) = 2
  /\ parsed.ast.tail[2].tail[2].head.kind = "Number"

\* src with the character c put in after its first k characters
InsertAt(src, k, c) == SubSeq(src, 1, k) \o <<c>> \o SubSeq(src, k + 1, Len(src))

\* the places of a source that lexes where one token ends and the next begins:
\* after the first k characters, being next to a one-character symbol or to
\* whitespace
IsBetweenTokens(src, k) ==
  /\ k \in 1..(Len(src) - 1)
  /\ \/ src[k] \in DOMAIN SymbolTokens \/ is_whitespace(src[k])
     \/ src[k + 1] \in DOMAIN SymbolTokens \/ is_whitespace(src[k + 1])

IsBeforeFirstToken(src, k) == k = 0
IsAfterLastToken(src, k) == k = Len(src)

\* C13: whitespace is only skipped: for every input lex succeeds on, a
\* whitespace character added before the first token, between two tokens or
\* after the last token gives the same token sequence; lex of "1" followed by a
\* space, and of a space followed by "1", equal lex of "1", [Number(1), Eoi].
C13_WhitespaceOnlySkipped ==
  pc = "lexed" =>
    /\ lexed.result = lex(source)
    /\ \A k \in 0..Len(source) : \A w \in Whitespace :
         (/\ source # <<>>
          /\ \/ IsBeforeFirstToken(source, k)
             \/ IsBetweenTokens(source, k)
             \/ IsAfterLastToken(source, k)) =>
           lex(InsertAt(source, k, w)) = lexed.result
    /\ source = <<"1">> =>
         /\ lexed.result.tokens = <<Number(Num(1)), Eoi>>
         /\ lex(<<"1", " ">>) = lexed.result
         /\ lex(<<" ", "1">>) = lexed.result

\* tokens are left over after a complete expression: a ')' with no '(' before
\* it, as in a + b ')' and a ')' b
HasUnmatchedRParen(toks) ==
  \/ /\ Len(toks) = 5
     /\ IsAtomToken(toks[1]) /\ toks[2] = Plus /\ IsAtomToken(toks[3]) /\ toks[4] = RParen
  \/ /\ Len(toks) = 4
     /\ IsAtomToken(toks[1]) /\ toks[2] = RParen /\ IsAtomToken(toks[3])

\* C14: a successful parse has consumed the whole token sequence: when parse
\* returns Ok the parser's current token is the closing Eoi, so a sequence with
\* tokens left over after a complete expression (a + b ')' or a ')' b) is
\* rejected with a syntax error.
C14_ParseConsumesAll ==
  pc # "parse" =>
    /\ parsed.kind = "Ok" =>
         /\ parsed.i = Len(tokens) - 1
         /\ current_token(tokens, parsed.i) = Eoi
    /\ HasUnmatchedRParen(tokens) => parsed.kind = "Err"

====
